---------------------------- MODULE Spec2Model ----------------------------
(*
  A model of rasterio/features.py: the structural geometry validator
  is_valid_geom, the rasterize orchestration built on it, the window
  computation geometry_window and the generator dataset_features.  Each of
  the four has its own variables and its own specification (SpecGeom, Spec,
  SpecWindow, SpecFeatures); the other three stay idle meanwhile.

  Python values are modelled as follows.

  * A coordinates value is a tree.  A node is either a number (a leaf that
    has no len()) or a sequence of nodes:
        [num |-> TRUE,  items |-> << >>]          a number
        [num |-> FALSE, items |-> <<n1, ..., nk>>] a list or tuple
    len() of a number raises TypeError, exactly as in Python.
  * A geometry is a mapping with some of the keys 'type', 'coordinates',
    'geometries'; `keys` is the set of keys present.
  * A function that may raise returns one of the strings "True", "False"
    or "TypeError".
*)
EXTENDS Integers, Sequences, FiniteSets, TLC

VARIABLES
    geom,           \* validator run: the geometry handed to is_valid_geom
    nmut,           \* validator run: structural mutations applied to geom so far
    res,            \* validator run: what is_valid_geom(geom) did, "none" before the call
    pc,             \* rasterize: where the call is
    fill,           \* rasterize: argument
    default_value,  \* rasterize: argument
    dtype_arg,      \* rasterize: the dtype argument as passed
    out_arg,        \* rasterize: the out argument as passed
    out_shape,      \* rasterize: argument
    shapes,         \* rasterize: the items the loop has taken from `shapes` so far
    valid_shapes,   \* rasterize: local
    shape_values,   \* rasterize: local
    warned,         \* rasterize: the indexes named by the warnings issued, in order
    dtype,          \* rasterize: local (the argument, reassigned at line 300)
    out,            \* rasterize: local (the argument, reassigned at line 317)
    raised,         \* rasterize: the exception that ended the call, "" if none
    burns,          \* rasterize: the calls made to _rasterize: (shapes, buffer) as handed
    ret,            \* rasterize: the returned buffer, NoBuffer if none
    wpc,            \* geometry_window: where the call is
    dataset,        \* geometry_window: argument
    wshapes,        \* geometry_window: the `shapes` argument
    pad_arg,        \* geometry_window: <<pad_x, pad_y>> as passed
    pixel_precision,\* geometry_window: argument
    pad,            \* geometry_window: <<pad_x, pad_y>> after lines 391-395
    px_env,         \* geometry_window: <<left, bottom, right, top>> after line 423
    env,            \* geometry_window: <<left, bottom, right, top>> handed to dataset.window
    window,         \* geometry_window: local, line 428
    window_floored, \* geometry_window: local, line 429
    window_out,     \* geometry_window: local, line 432
    wret,           \* geometry_window: the returned window, NoWindow if none
    wraised,        \* geometry_window: the exception that ended the call, "" if none
    fpc,            \* dataset_features: where the generator is
    src,            \* dataset_features: argument
    bidx,           \* dataset_features: argument
    sampling,       \* dataset_features: argument
    band,           \* dataset_features: argument
    as_mask,        \* dataset_features: argument
    with_nodata,    \* dataset_features: argument
    ftransform,     \* dataset_features: local `transform`
    fshape,         \* dataset_features: local `shape`, <<rows, columns>>
    msk,            \* dataset_features: local
    img,            \* dataset_features: local
    traced,         \* dataset_features: the calls made to shapes(): <<image, mask, transform>>
    events,         \* dataset_features: the reads of the dataset and the yields, in order
    fraised         \* dataset_features: the exception that ended the run, "" if none

geom_vars == <<geom, nmut, res>>

rast_vars == <<pc, fill, default_value, dtype_arg, out_arg, out_shape, shapes,
               valid_shapes, shape_values, warned, dtype, out, raised, burns, ret>>

win_vars == <<wpc, dataset, wshapes, pad_arg, pixel_precision, pad, px_env, env,
              window, window_floored, window_out, wret, wraised>>

feat_vars == <<fpc, src, bidx, sampling, band, as_mask, with_nodata, ftransform,
               fshape, msk, img, traced, events, fraised>>

vars == <<geom_vars, rast_vars, win_vars, feat_vars>>

(***************************************************************************)
(* Bounds                                                                  *)
(***************************************************************************)
\* structural mutations applied to one geometry before it is validated
MaxMutations == 2

\* items one call of rasterize takes from `shapes`
MaxShapes == 2

\* features one run of dataset_features yields
MaxFeatures == 2

(***************************************************************************)
(* Python values                                                           *)
(***************************************************************************)
Num == [num |-> TRUE, items |-> << >>]

List(items) == [num |-> FALSE, items |-> items]

Mapping(keys, type, coordinates, geometries) ==
    [keys |-> keys, type |-> type, coordinates |-> coordinates,
     geometries |-> geometries]

Geometry(type, coordinates) ==
    Mapping({"type", "coordinates"}, type, coordinates, << >>)

GeometryCollection(geometries) ==
    Mapping({"type", "geometries"}, "GeometryCollection", Num, geometries)

\* len(x) >= n and <rest>, with Python's short circuit; len() of a number raises
LenAtLeast(x, n, rest) ==
    IF x.num THEN "TypeError"
    ELSE IF Len(x.items) >= n THEN rest
    ELSE "False"

(***************************************************************************)
(* is_valid_geom                                                           *)
(***************************************************************************)
geom_types == {"Point", "MultiPoint", "LineString", "LinearRing",
               "MultiLineString", "Polygon", "MultiPolygon"}

valid_Point(coords) == LenAtLeast(coords, 2, "True")

valid_MultiPoint(coords) ==
    LenAtLeast(coords, 1, LenAtLeast(coords.items[1], 2, "True"))

valid_LineString(coords) ==
    LenAtLeast(coords, 2, LenAtLeast(coords.items[1], 2, "True"))

valid_LinearRing(coords) ==
    LenAtLeast(coords, 4, LenAtLeast(coords.items[1], 2, "True"))

valid_MultiLineString(coords) ==
    LenAtLeast(coords, 1,
        LenAtLeast(coords.items[1], 2,
            LenAtLeast(coords.items[1].items[1], 2, "True")))

\* a faulty variant of valid_Polygon: a ring of 3 coordinates passes
valid_Polygon_ring_of_3(coords) ==
    LenAtLeast(coords, 1,
        LenAtLeast(coords.items[1], 3,
            LenAtLeast(coords.items[1].items[1], 2, "True")))

valid_Polygon(coords) ==
    LenAtLeast(coords, 1,
        LenAtLeast(coords.items[1], 4,
            LenAtLeast(coords.items[1].items[1], 2, "True")))

valid_MultiPolygon(coords) ==
    LenAtLeast(coords, 1,
        LenAtLeast(coords.items[1], 1,
            LenAtLeast(coords.items[1].items[1], 4,
                LenAtLeast(coords.items[1].items[1].items[1], 2, "True"))))

valid_coordinates(geom_type, coords) ==
    CASE geom_type = "Point"           -> valid_Point(coords)
      [] geom_type = "MultiPoint"      -> valid_MultiPoint(coords)
      [] geom_type = "LineString"      -> valid_LineString(coords)
      [] geom_type = "LinearRing"      -> valid_LinearRing(coords)
      [] geom_type = "MultiLineString" -> valid_MultiLineString(coords)
      [] geom_type = "Polygon"         -> valid_Polygon(coords)
      [] geom_type = "MultiPolygon"    -> valid_MultiPolygon(coords)

RECURSIVE is_valid_geom(_)
RECURSIVE valid_members(_, _)

\* the loop `for g in geom['geometries']` from member i on: the first member
\* that is not valid ends it with False, a member that raises ends it raising
valid_members(geometries, i) ==
    IF i > Len(geometries) THEN "True"
    ELSE LET r == is_valid_geom(geometries[i])
         IN  IF r = "True" THEN valid_members(geometries, i + 1) ELSE r

is_valid_geom(g) ==
    IF "type" \notin g.keys THEN "False"
    ELSE IF g.type \notin geom_types \cup {"GeometryCollection"} THEN "False"
    ELSE IF g.type \in geom_types
         THEN IF "coordinates" \notin g.keys THEN "False"
              ELSE valid_coordinates(g.type, g.coordinates)
    ELSE IF "geometries" \notin g.keys THEN "False"
    ELSE IF ~(Len(g.geometries) > 0) THEN "False"
    ELSE valid_members(g.geometries, 1)


(***************************************************************************)
(* Numbers and numpy dtypes                                                *)
(*                                                                         *)
(* A Python number is [kind, n]: the int n, the float n + 1/2 (the floats  *)
(* modelled are the non-integral ones), or a complex number, which stands  *)
(* for a numeric kind outside the admissible dtypes.  None is a value too. *)
(***************************************************************************)
None == [kind |-> "None", n |-> 0]

PyInt(n) == [kind |-> "int", n |-> n]

PyFloat(n) == [kind |-> "float", n |-> n]

PyComplex == [kind |-> "complex", n |-> 1]

valid_dtypes == {"int16", "int32", "uint8", "uint16", "uint32", "float32", "float64"}

\* the admissible dtypes from the narrowest up; of two integer dtypes of one
\* width the unsigned comes first, and the floats come last
WideningOrder == <<"uint8", "uint16", "int16", "uint32", "int32", "float32", "float64">>

RECURSIVE Fits(_, _, _)
\* n lies in the range of the integer type of that signedness and width
Fits(n, signed, bits) ==
    IF bits > 16 THEN Fits(n \div 65536, signed, bits - 16)
    ELSE IF signed THEN -(2 ^ (bits - 1)) <= n /\ n < 2 ^ (bits - 1)
    ELSE 0 <= n /\ n < 2 ^ bits

\* the dtype represents the number exactly
CanHold(dt, v) ==
    CASE dt = "int8"    -> v.kind = "int" /\ Fits(v.n, TRUE, 8)
      [] dt = "uint8"   -> v.kind = "int" /\ Fits(v.n, FALSE, 8)
      [] dt = "int16"   -> v.kind = "int" /\ Fits(v.n, TRUE, 16)
      [] dt = "uint16"  -> v.kind = "int" /\ Fits(v.n, FALSE, 16)
      [] dt = "int32"   -> v.kind = "int" /\ Fits(v.n, TRUE, 32)
      [] dt = "uint32"  -> v.kind = "int" /\ Fits(v.n, FALSE, 32)
      [] dt = "float32" -> v.kind \in {"int", "float"} /\ Fits(v.n, TRUE, 24)
      [] dt = "float64" -> v.kind \in {"int", "float"}

\* the smallest admissible dtype that holds every value, "None" if there is none
get_minimum_dtype(values) ==
    LET holds == { i \in 1..Len(WideningOrder) :
                     \A j \in 1..Len(values) : CanHold(WideningOrder[i], values[j]) }
    IN  IF holds = {} THEN "None"
        ELSE WideningOrder[CHOOSE i \in holds : \A k \in holds : i <= k]

\* the values are representable in the admissible dtypes
validate_dtype(values) == get_minimum_dtype(values) \in valid_dtypes

\* the values are cast to the dtype without loss
can_cast_dtype(values, dt) == \A j \in 1..Len(values) : CanHold(dt, values[j])

(***************************************************************************)
(* numpy arrays: [dtype, shape, data], data in row-major order             *)
(***************************************************************************)
NoBuffer == [dtype |-> "None", shape |-> << >>, data |-> << >>]

\* an out_shape argument; NoShape is out_shape=None
Shape(dims) == [given |-> TRUE, dims |-> dims]

NoShape == [given |-> FALSE, dims |-> << >>]

RECURSIVE Product(_)
Product(dims) == IF dims = << >> THEN 1 ELSE Head(dims) * Product(Tail(dims))

\* np.empty(shape, dtype) followed by .fill(value)
Filled(shape, dt, value) ==
    [dtype |-> dt, shape |-> shape, data |-> [i \in 1..Product(shape) |-> value]]

\* min(out.shape) == 0
HasZeroAxis(buffer) == \E i \in 1..Len(buffer.shape) : buffer.shape[i] = 0

(***************************************************************************)
(* rasterize                                                               *)
(***************************************************************************)
\* lines 241-258: the checks of fill, default_value and dtype; "" if all pass
check_arguments(fill_, default_value_, dtype_) ==
    IF fill_ # PyInt(0) /\ ~validate_dtype(<<fill_>>)
        THEN "InvalidDtype: fill"
    ELSE IF fill_ # PyInt(0) /\ dtype_ # "None" /\ ~can_cast_dtype(<<fill_>>, dtype_)
        THEN "CastError: fill"
    ELSE IF default_value_ # PyInt(1) /\ ~validate_dtype(<<default_value_>>)
        THEN "InvalidDtype: default_value"
    ELSE IF default_value_ # PyInt(1) /\ dtype_ # "None"
                /\ ~can_cast_dtype(<<default_value_>>, dtype_)
        THEN "CastError: default_value"
    ELSE IF dtype_ # "None" /\ dtype_ \notin valid_dtypes
        THEN "InvalidDtype: dtype"
    ELSE ""

\* a faulty variant of item_value: a value of None gets default_value
item_value_none_as_default(item, fill_, default_value_) ==
    IF item.pair /\ item.value # None THEN item.value ELSE default_value_

\* lines 263-269: the value of an item
item_value(item, fill_, default_value_) ==
    IF item.pair
        THEN IF item.value = None THEN fill_ ELSE item.value
        ELSE default_value_

\* a faulty variant of shape_parts: a collection is burned as one shape
shape_parts_unflattened(g, value) == << <<g, value>> >>

\* lines 275-285: what a valid geometry adds to valid_shapes
shape_parts(g, value) ==
    IF g.type = "GeometryCollection"
        THEN [i \in 1..Len(g.geometries) |-> <<g.geometries[i], value>>]
        ELSE << <<g, value>> >>

\* lines 296-303: the dtype checks of the shape values; "" if they pass
check_shape_values(values, dtype_) ==
    IF ~validate_dtype(values) THEN "InvalidDtype: shape values"
    ELSE IF dtype_ # "None" /\ ~can_cast_dtype(values, dtype_)
        THEN "CastError: shape values"
    ELSE ""

\* a faulty variant of resolved_dtype: the fill value is left out
resolved_dtype_without_fill(values, fill_, dtype_) ==
    IF dtype_ = "None" THEN get_minimum_dtype(values) ELSE dtype_

\* lines 299-300: the dtype after the negotiation
resolved_dtype(values, fill_, dtype_) ==
    IF dtype_ = "None" THEN get_minimum_dtype(Append(values, fill_)) ELSE dtype_

\* a faulty variant of check_out: the values are not checked against out.dtype
check_out_without_cast(values, out_, out_shape_) ==
    IF out_ # NoBuffer
        THEN IF out_.dtype \notin valid_dtypes THEN "InvalidDtype: out" ELSE ""
    ELSE IF out_shape_ # NoShape
        THEN IF Len(out_shape_.dims) # 2 THEN "NotTwoDimensional" ELSE ""
    ELSE "NoOutShapeOrOut"

\* lines 305-321: the checks that end in the buffer to burn into; "" if they pass
check_out(values, out_, out_shape_) ==
    IF out_ # NoBuffer
        THEN IF out_.dtype \notin valid_dtypes THEN "InvalidDtype: out"
             ELSE IF ~can_cast_dtype(values, out_.dtype) THEN "CastError: shape values"
             ELSE ""
    ELSE IF out_shape_ # NoShape
        THEN IF Len(out_shape_.dims) # 2 THEN "NotTwoDimensional" ELSE ""
    ELSE "NoOutShapeOrOut"

\* a faulty variant: a new raster is made and filled also when out is given
buffer_to_burn_always_new(out_, out_shape_, dtype_, fill_) ==
    Filled(IF out_ # NoBuffer THEN out_.shape ELSE out_shape_.dims, dtype_, fill_)

\* lines 305-318: the buffer to burn into
buffer_to_burn(out_, out_shape_, dtype_, fill_) ==
    IF out_ # NoBuffer THEN out_ ELSE Filled(out_shape_.dims, dtype_, fill_)

\* lines 323-324
check_axes(buffer) == IF HasZeroAxis(buffer) THEN "ZeroAxis" ELSE ""

\* _rasterize(valid_shapes, out, ...): the native engine writes the value of a
\* shape into the pixels the shape covers; which pixels those are is its own
\* business, so every set of them is possible (the last shape's value stands
\* for what is written)
Burned(buffer, parts, covered) ==
    [buffer EXCEPT !.data = [i \in 1..Len(buffer.data) |->
        IF i \in covered THEN parts[Len(parts)][2] ELSE buffer.data[i]]]

RastIdle ==
    /\ pc = "idle"
    /\ fill = None /\ default_value = None /\ dtype_arg = "None"
    /\ out_arg = NoBuffer /\ out_shape = NoShape
    /\ shapes = << >> /\ valid_shapes = << >> /\ shape_values = << >>
    /\ warned = << >> /\ dtype = "None" /\ out = NoBuffer
    /\ raised = "" /\ burns = << >> /\ ret = NoBuffer

\* the call, through the checks of lines 241-258
Call(fill_, default_value_, dtype_, out_, out_shape_) ==
    /\ pc = "idle"
    /\ fill' = fill_ /\ default_value' = default_value_
    /\ dtype_arg' = dtype_ /\ dtype' = dtype_
    /\ out_arg' = out_ /\ out' = out_
    /\ out_shape' = out_shape_
    /\ LET e == check_arguments(fill_, default_value_, dtype_)
       IN  /\ raised' = e
           /\ pc' = IF e = "" THEN "loop" ELSE "raised"
    /\ UNCHANGED <<shapes, valid_shapes, shape_values, warned, burns, ret>>

\* one turn of the loop of lines 262-289 on the next item of `shapes`
NextShape(item) ==
    /\ pc = "loop"
    /\ Len(shapes) < MaxShapes
    /\ shapes' = Append(shapes, item)
    /\ LET index == Len(shapes)
           value == item_value(item, fill, default_value)
           valid == is_valid_geom(item.geom)
       IN  CASE valid = "True" ->
                  /\ shape_values' = Append(shape_values, value)
                  /\ valid_shapes' = valid_shapes \o shape_parts(item.geom, value)
                  /\ UNCHANGED <<warned, pc, raised>>
             [] valid = "False" ->
                  /\ warned' = Append(warned, index)
                  /\ UNCHANGED <<shape_values, valid_shapes, pc, raised>>
             [] valid = "TypeError" ->
                  /\ pc' = "raised"
                  /\ raised' = "TypeError"
                  /\ UNCHANGED <<shape_values, valid_shapes, warned>>
    /\ UNCHANGED <<fill, default_value, dtype_arg, out_arg, out_shape, dtype, out,
                   burns, ret>>

\* `shapes` is exhausted: lines 291-324
EndOfShapes ==
    /\ pc = "loop"
    /\ LET e1 == IF valid_shapes = << >> THEN "NoValidGeometry"
                 ELSE check_shape_values(shape_values, dtype)
           dt == resolved_dtype(shape_values, fill, dtype)
           e2 == check_out(shape_values, out, out_shape)
           buffer == buffer_to_burn(out, out_shape, dt, fill)
       IN  IF e1 # ""
               THEN pc' = "raised" /\ raised' = e1 /\ UNCHANGED <<dtype, out>>
           ELSE IF e2 # ""
               THEN pc' = "raised" /\ raised' = e2 /\ dtype' = dt /\ UNCHANGED out
           ELSE /\ dtype' = dt
                /\ out' = buffer
                /\ raised' = check_axes(buffer)
                /\ pc' = IF check_axes(buffer) = "" THEN "burn" ELSE "raised"
    /\ UNCHANGED <<fill, default_value, dtype_arg, out_arg, out_shape, shapes,
                   valid_shapes, shape_values, warned, burns, ret>>

\* lines 326-328: the burn and the return
Burn ==
    /\ pc = "burn"
    /\ burns' = Append(burns, <<valid_shapes, out>>)
    /\ \E covered \in SUBSET (1..Len(out.data)) :
           /\ out' = Burned(out, valid_shapes, covered)
           /\ ret' = Burned(out, valid_shapes, covered)
    /\ pc' = "done"
    /\ UNCHANGED <<fill, default_value, dtype_arg, out_arg, out_shape, shapes,
                   valid_shapes, shape_values, warned, dtype, raised>>

(***************************************************************************)
(* geometry_window                                                         *)
(*                                                                         *)
(* Real numbers are fixed-point: a pixel coordinate n stands for n/Q       *)
(* pixels, a world coordinate n for n/Q world units, a padding n for the   *)
(* fraction n/Q.  The datasets have square pixels of an integer size, so   *)
(* every product and quotient below is exact.                              *)
(***************************************************************************)
Q == 4

Abs(n) == IF n < 0 THEN -n ELSE n

Min(S) == CHOOSE m \in S : \A n \in S : m <= n

Max(S) == CHOOSE m \in S : \A n \in S : m >= n

\* math.floor and math.ceil of n/Q, as whole numbers
Floor(n) == n \div Q

Ceil(n) == -((-n) \div Q)

\* round(n/Q, places) of Python 3: to the nearest multiple of 10^-places, a
\* tie to the even one; the result is given in units of 10^-places
RECURSIVE Pow10(_)
Pow10(places) == IF places = 0 THEN 1 ELSE 10 * Pow10(places - 1)

Round(n, places) ==
    LET scaled == n * Pow10(places)
        down == scaled \div Q
        twice == 2 * (scaled - down * Q)
    IN  IF twice < Q THEN down
        ELSE IF twice > Q THEN down + 1
        ELSE IF down % 2 = 0 THEN down ELSE down + 1

\* a dataset: width and height in pixels, the size of its square pixels, and
\* the kind of its transform
\*   "north_up": x = res * col,  y = res * (height - row)
\*   "south_up": x = res * col,  y = res * row
\*   "rotated":  x = res * row,  y = res * col
Dataset(kind, res_, width, height) ==
    [kind |-> kind, res |-> res_, width |-> width, height |-> height]

\* (col, row) * dataset.transform
Forward(ds, p) ==
    CASE ds.kind = "north_up" -> <<ds.res * p[1], ds.res * (ds.height * Q - p[2])>>
      [] ds.kind = "south_up" -> <<ds.res * p[1], ds.res * p[2]>>
      [] ds.kind = "rotated"  -> <<ds.res * p[2], ds.res * p[1]>>

\* (x, y) * ~dataset.transform
Inverse(ds, w) ==
    CASE ds.kind = "north_up" -> <<w[1] \div ds.res, ds.height * Q - (w[2] \div ds.res)>>
      [] ds.kind = "south_up" -> <<w[1] \div ds.res, w[2] \div ds.res>>
      [] ds.kind = "rotated"  -> <<w[2] \div ds.res, w[1] \div ds.res>>

\* a shape of geometry_window: the pixels its coordinates span, as
\* <<min col, min row, max col, max row>>, and whether it carries a 'bbox'
WindowShape(box, bbox) == [box |-> box, bbox |-> bbox]

\* the world coordinates of the corners of a shape
Corners(ds, shape) ==
    { Forward(ds, <<c, r>>) : c \in {shape.box[1], shape.box[3]},
                              r \in {shape.box[2], shape.box[4]} }

\* the 'bbox' member of GeoJSON: [west, south, east, north]
Bbox(ds, shape) ==
    LET xs == { w[1] : w \in Corners(ds, shape) }
        ys == { w[2] : w \in Corners(ds, shape) }
    IN  <<Min(xs), Min(ys), Max(xs), Max(ys)>>

\* _bounds(geom, north_up, transform): (left, bottom, right, top) of the
\* coordinates; in world space bottom is the south side when north_up and the
\* north side otherwise, in pixel space (transform given) bottom is the
\* greatest row
geometry_bounds(ds, shape, north_up, transform) ==
    LET b == Bbox(ds, shape)
    IN  IF transform = "inverse"
            THEN <<shape.box[1], shape.box[4], shape.box[3], shape.box[2]>>
        ELSE IF north_up THEN b
        ELSE <<b[1], b[4], b[3], b[2]>>

\* lines 331-353
bounds(ds, shape, north_up, transform) ==
    IF shape.bbox THEN Bbox(ds, shape)
    ELSE geometry_bounds(ds, shape, north_up, transform)

\* lines 377-382: what the flags say of the dataset
NorthUp(ds) == ds.kind = "north_up"

Rotated(ds) == ds.kind = "rotated"

\* lines 391-395
padding(pad_, res_) == IF pad_ # 0 THEN Abs(pad_ * res_) ELSE pad_

Column(boxes, i) == { boxes[k][i] : k \in 1..Len(boxes) }

\* lines 398-409
world_envelope(ds, shapes_, pad_) ==
    LET all_bounds == [k \in 1..Len(shapes_) |->
                          bounds(ds, shapes_[k], NorthUp(ds), "none")]
        left == Min(Column(all_bounds, 1)) - pad_[1]
        right == Max(Column(all_bounds, 3)) + pad_[1]
    IN  IF NorthUp(ds)
            THEN <<left, Min(Column(all_bounds, 2)) - pad_[2],
                   right, Max(Column(all_bounds, 4)) + pad_[2]>>
            ELSE <<left, Max(Column(all_bounds, 2)) + pad_[2],
                   right, Min(Column(all_bounds, 4)) - pad_[2]>>

\* lines 412-418
pixel_envelope(ds, shapes_, pad_) ==
    LET all_bounds_px == [k \in 1..Len(shapes_) |->
                             bounds(ds, shapes_[k], TRUE, "inverse")]
    IN  <<Min(Column(all_bounds_px, 1)) - pad_[1],
          Max(Column(all_bounds_px, 2)) + pad_[2],
          Max(Column(all_bounds_px, 3)) + pad_[1],
          Min(Column(all_bounds_px, 4)) - pad_[2]>>

\* lines 420-423
clamped(ds, e) ==
    <<Max({0, e[1]}), Min({ds.height * Q, e[2]}),
      Min({ds.width * Q, e[3]}), Max({0, e[4]})>>

\* lines 425-426
to_world(ds, e) ==
    LET lt == Forward(ds, <<e[1], e[4]>>)
        rb == Forward(ds, <<e[3], e[2]>>)
    IN  <<lt[1], rb[2], rb[1], lt[2]>>

Window(col_off, row_off, width, height) ==
    [col_off |-> col_off, row_off |-> row_off, width |-> width, height |-> height]

NoWindow == [col_off |-> 0, row_off |-> 0, width |-> 0, height |-> 0]

\* dataset.window(left, bottom, right, top): from the pixel of (left, top) to
\* the pixel of (right, bottom)
dataset_window(ds, e) ==
    LET start == Inverse(ds, <<e[1], e[4]>>)
        stop == Inverse(ds, <<e[3], e[2]>>)
    IN  Window(start[1], start[2], stop[1] - start[1], stop[2] - start[2])

\* Window.round_offsets(op='floor', pixel_precision): the offsets, rounded to
\* pixel_precision places, then floored to a pixel index
round_offsets(w, places) ==
    Window(Q * (Round(w.col_off, places) \div Pow10(places)),
           Q * (Round(w.row_off, places) \div Pow10(places)),
           w.width, w.height)

\* a faulty variant: the ceiling of the width and height alone
outermost_of_extent_alone(w, floored) ==
    Window(floored.col_off, floored.row_off, Q * Ceil(w.width), Q * Ceil(w.height))

\* lines 430-432
outermost(w, floored) ==
    Window(floored.col_off, floored.row_off,
           Q * Ceil(w.width + w.col_off - floored.col_off),
           Q * Ceil(w.height + w.row_off - floored.row_off))

\* line 435
raster_window(ds) == Window(0, 0, ds.width * Q, ds.height * Q)

\* Window.intersection: the common part of two windows; WindowError when
\* they have none (intersect is false)
intersect(w1, w2) ==
    /\ Min({w1.col_off + w1.width, w2.col_off + w2.width})
           > Max({w1.col_off, w2.col_off})
    /\ Min({w1.row_off + w1.height, w2.row_off + w2.height})
           > Max({w1.row_off, w2.row_off})

intersection(w1, w2) ==
    LET col_off == Max({w1.col_off, w2.col_off})
        row_off == Max({w1.row_off, w2.row_off})
        col_stop == Min({w1.col_off + w1.width, w2.col_off + w2.width})
        row_stop == Min({w1.row_off + w1.height, w2.row_off + w2.height})
    IN  Window(col_off, row_off, col_stop - col_off, row_stop - row_off)

WindowIdle ==
    /\ wpc = "idle"
    /\ dataset = Dataset("north_up", 1, 1, 1)
    /\ wshapes = << >> /\ pad_arg = <<0, 0>> /\ pixel_precision = 0
    /\ pad = <<0, 0>> /\ px_env = << >> /\ env = << >>
    /\ window = NoWindow /\ window_floored = NoWindow /\ window_out = NoWindow
    /\ wret = NoWindow /\ wraised = ""

\* the call
WindowCall(ds, shapes_, pad_x, pad_y, places) ==
    /\ wpc = "idle"
    /\ dataset' = ds /\ wshapes' = shapes_
    /\ pad_arg' = <<pad_x, pad_y>> /\ pad' = <<pad_x, pad_y>>
    /\ pixel_precision' = places
    /\ wpc' = "pad"
    /\ UNCHANGED <<px_env, env, window, window_floored, window_out, wret, wraised>>

\* lines 391-395
Pad ==
    /\ wpc = "pad"
    /\ pad' = <<padding(pad[1], dataset.res), padding(pad[2], dataset.res)>>
    /\ wpc' = "bounds"
    /\ UNCHANGED <<dataset, wshapes, pad_arg, pixel_precision, px_env, env,
                   window, window_floored, window_out, wret, wraised>>

\* lines 397-426; zip(*all_bounds) of no bounds at all cannot be unpacked
Envelope ==
    /\ wpc = "bounds"
    /\ IF wshapes = << >>
           THEN /\ wraised' = "ValueError" /\ wpc' = "raised"
                /\ UNCHANGED <<px_env, env>>
       ELSE IF ~Rotated(dataset)
           THEN /\ env' = world_envelope(dataset, wshapes, pad)
                /\ wpc' = "window"
                /\ UNCHANGED <<px_env, wraised>>
       ELSE /\ px_env' = clamped(dataset, pixel_envelope(dataset, wshapes, pad))
            /\ env' = to_world(dataset,
                               clamped(dataset, pixel_envelope(dataset, wshapes, pad)))
            /\ wpc' = "window"
            /\ UNCHANGED wraised
    /\ UNCHANGED <<dataset, wshapes, pad_arg, pixel_precision, pad,
                   window, window_floored, window_out, wret>>

\* lines 428-432
Outermost ==
    /\ wpc = "window"
    /\ LET w == dataset_window(dataset, env)
           floored == round_offsets(w, pixel_precision)
       IN  /\ window' = w
           /\ window_floored' = floored
           /\ window_out' = outermost(w, floored)
    /\ wpc' = "intersect"
    /\ UNCHANGED <<dataset, wshapes, pad_arg, pixel_precision, pad, px_env, env,
                   wret, wraised>>

\* lines 434-440
Intersect ==
    /\ wpc = "intersect"
    /\ IF intersect(window_out, raster_window(dataset))
           THEN /\ wret' = intersection(window_out, raster_window(dataset))
                /\ wpc' = "returned"
                /\ UNCHANGED wraised
           ELSE /\ wraised' = "WindowError"
                /\ wpc' = "raised"
                /\ UNCHANGED wret
    /\ UNCHANGED <<dataset, wshapes, pad_arg, pixel_precision, pad, px_env, env,
                   window, window_floored, window_out>>

(***************************************************************************)
(* dataset_features                                                        *)
(*                                                                         *)
(* A float is modelled by the rational it stands for, <<numerator,         *)
(* denominator>>, together with the direction in which the one division    *)
(* of the code, width / columns, is rounded to a binary64.                 *)
(***************************************************************************)
RECURSIVE GCD(_, _)
GCD(m, n) == IF n = 0 THEN Abs(m) ELSE GCD(n, m % n)

Rat(n, d) ==
    LET g == GCD(n, d)
        sign == IF d < 0 THEN -1 ELSE 1
    IN  <<sign * (n \div g), sign * (d \div g)>>

Whole(n) == <<n, 1>>

RAdd(x, y) == Rat(x[1] * y[2] + y[1] * x[2], x[2] * y[2])

RMul(x, y) == Rat(x[1] * y[1], x[2] * y[2])

\* affine.Affine(a, b, c, d, e, f): x = a*col + b*row + c, y = d*col + e*row + f
Affine(a, b, c, d, e, f) == <<a, b, c, d, e, f>>

translation(xoff, yoff) == Affine(Whole(1), Whole(0), xoff, Whole(0), Whole(1), yoff)

scale(sx, sy) == Affine(sx, Whole(0), Whole(0), Whole(0), sy, Whole(0))

\* t * u: u is applied first
AffineMul(t, u) ==
    Affine(RAdd(RMul(t[1], u[1]), RMul(t[2], u[4])),
           RAdd(RMul(t[1], u[2]), RMul(t[2], u[5])),
           RAdd(RAdd(RMul(t[1], u[3]), RMul(t[2], u[6])), t[3]),
           RAdd(RMul(t[4], u[1]), RMul(t[5], u[4])),
           RAdd(RMul(t[4], u[2]), RMul(t[5], u[5])),
           RAdd(RAdd(RMul(t[4], u[3]), RMul(t[5], u[6])), t[6]))

\* t * (col, row)
Apply(t, p) ==
    <<RAdd(RAdd(RMul(t[1], p[1]), RMul(t[2], p[2])), t[3]),
      RAdd(RAdd(RMul(t[4], p[1]), RMul(t[5], p[2])), t[6])>>

\* the number of binary digits of a positive whole number
RECURSIVE BitLength(_)
BitLength(n) == IF n = 0 THEN 0 ELSE 1 + BitLength(n \div 2)

\* 2^digits modulo n
RECURSIVE PowMod2(_, _)
PowMod2(digits, n) ==
    IF digits = 0 THEN 1 % n
    ELSE LET half == PowMod2(digits \div 2, n)
         IN  (half * half * (IF digits % 2 = 1 THEN 2 ELSE 1)) % n

\* the remainder left after `digits` binary digits of r/n, r < n
RemainderAfter(r, n, digits) == (r * PowMod2(digits, n)) % n

\* w / n in binary64, for whole w >= n >= 1 (w below 2^31): the quotient is
\* rounded to 53 significant binary digits, to the nearest, a tie to the
\* even one
rounding_of_division(w, n) ==
    LET digits == 53 - BitLength(w \div n)
        before == RemainderAfter(w % n, n, digits - 1)
        last == (2 * before) \div n
        kept == (2 * before) % n
        guard == (2 * kept) \div n
        rest == (2 * kept) % n
    IN  IF kept = 0 THEN "exact"
        ELSE IF guard = 1 /\ (rest # 0 \/ last = 1) THEN "up"
        ELSE "down"

\* w / n
true_division(w, n) == Rat(w, n)

\* w % (w / n): nothing is left of w after n times the quotient, but a
\* quotient that was rounded up goes into w only n - 1 times and all but the
\* last binary digits of one quotient are left; the few last digits left by
\* a quotient that was rounded down are taken as nothing
remainder_of_quotient(w, n) ==
    IF rounding_of_division(w, n) = "up" THEN true_division(w, n) ELSE Whole(0)

CeilDiv(m, n) == -((-m) \div n)

\* a dataset: its size, its number of bands and its transform
Source(width, height, count, transform_) ==
    [width |-> width, height |-> height, count |-> count, transform |-> transform_]

\* bidx=None
NoBidx == 0

\* lines 586-587
decimated_shape(src_, sampling_) ==
    <<CeilDiv(src_.height, sampling_), CeilDiv(src_.width, sampling_)>>

\* lines 583-599
adjusted_transform(src_, sampling_) ==
    IF sampling_ > 1
        THEN LET columns == decimated_shape(src_, sampling_)[2]
                 rows == decimated_shape(src_, sampling_)[1]
                 x_sampling == true_division(src_.width, columns)
                 y_sampling == true_division(src_.height, rows)
             IN  AffineMul(AffineMul(src_.transform,
                                     translation(remainder_of_quotient(src_.width, columns),
                                                 remainder_of_quotient(src_.height, rows))),
                           scale(x_sampling, y_sampling))
        ELSE src_.transform

\* an array is known by what it was read by and whether it was made binary
\* since; None is the array read by nothing
Array(by) == [by |-> by, binary |-> FALSE]

NoArray == Array("None")

\* lines 637-639
Binary(array) == [array EXCEPT !.binary = TRUE]

\* line 604
needs_mask(band_, as_mask_, with_nodata_) ==
    ~band_ \/ (band_ /\ ~as_mask_ /\ ~with_nodata_)

\* lines 636-641: <<img, msk>>
as_binary(img_, msk_, as_mask_, with_nodata_) ==
    IF as_mask_
        THEN <<Binary(img_), IF ~with_nodata_ THEN Binary(img_) ELSE msk_>>
        ELSE <<img_, msk_>>

\* a faulty variant: the mask is handed over whatever with_nodata says
mask_kwarg_always(msk_, with_nodata_) == msk_

\* lines 644-646: the mask handed to shapes(), None if none
mask_kwarg(msk_, with_nodata_) == IF ~with_nodata_ THEN msk_ ELSE NoArray

\* a faulty variant: the band is read again for every feature
feature_events_rereading(i) == <<"read", "yield">>

\* lines 651-667: what one turn of the loop does to the dataset and the
\* consumer, for the i-th feature
feature_events(i) == <<"yield">>

FeaturesIdle ==
    /\ fpc = "idle"
    /\ src = Source(1, 1, 1, translation(Whole(0), Whole(0)))
    /\ bidx = NoBidx /\ sampling = 1
    /\ band = TRUE /\ as_mask = FALSE /\ with_nodata = FALSE
    /\ ftransform = translation(Whole(0), Whole(0)) /\ fshape = << >>
    /\ msk = NoArray /\ img = NoArray
    /\ traced = << >> /\ events = << >> /\ fraised = ""

Count(seq, e) == Cardinality({ i \in 1..Len(seq) : seq[i] = e })

\* the call: a generator is made, none of its body has run
FeaturesCall(src_, bidx_, sampling_, band_, as_mask_, with_nodata_) ==
    /\ fpc = "idle"
    /\ src' = src_ /\ bidx' = bidx_ /\ sampling' = sampling_
    /\ band' = band_ /\ as_mask' = as_mask_ /\ with_nodata' = with_nodata_
    /\ fpc' = "created"
    /\ UNCHANGED <<ftransform, fshape, msk, img, traced, events, fraised>>

\* the consumer pulls for the first time: lines 576-580
Start ==
    /\ fpc = "created"
    /\ IF bidx # NoBidx /\ bidx > src.count
           THEN fraised' = "ValueError" /\ fpc' = "raised"
           ELSE fpc' = "transform" /\ UNCHANGED fraised
    /\ UNCHANGED <<src, bidx, sampling, band, as_mask, with_nodata, ftransform,
                   fshape, msk, img, traced, events>>

\* lines 583-599
AdjustTransform ==
    /\ fpc = "transform"
    /\ ftransform' = adjusted_transform(src, sampling)
    /\ fshape' = IF sampling > 1 THEN decimated_shape(src, sampling) ELSE fshape
    /\ fpc' = "masks"
    /\ UNCHANGED <<src, bidx, sampling, band, as_mask, with_nodata, msk, img,
                   traced, events, fraised>>

\* lines 604-620
ReadMasks ==
    /\ fpc = "masks"
    /\ IF needs_mask(band, as_mask, with_nodata)
           THEN /\ events' = Append(events, "read_masks")
                /\ msk' = Array("read_masks")
                /\ img' = Array("read_masks")
           ELSE UNCHANGED <<events, msk, img>>
    /\ fpc' = "band"
    /\ UNCHANGED <<src, bidx, sampling, band, as_mask, with_nodata, ftransform,
                   fshape, traced, fraised>>

\* lines 623-630; src.indexes.index(None) is a ValueError
ReadBand ==
    /\ fpc = "band"
    /\ IF ~band
           THEN fpc' = "binarize" /\ UNCHANGED <<events, img, fraised>>
       ELSE IF sampling # 1 /\ bidx = NoBidx
           THEN fraised' = "ValueError" /\ fpc' = "raised" /\ UNCHANGED <<events, img>>
       ELSE /\ events' = Append(events, "read")
            /\ img' = Array("read")
            /\ fpc' = "binarize"
            /\ UNCHANGED fraised
    /\ UNCHANGED <<src, bidx, sampling, band, as_mask, with_nodata, ftransform,
                   fshape, msk, traced>>

\* lines 636-652: the image is made binary and shapes() is called
Trace ==
    /\ fpc = "binarize"
    /\ LET binary == as_binary(img, msk, as_mask, with_nodata)
       IN  /\ img' = binary[1]
           /\ msk' = binary[2]
           /\ traced' = Append(traced, <<binary[1],
                                         mask_kwarg(binary[2], with_nodata),
                                         ftransform>>)
    /\ fpc' = "tracing"
    /\ UNCHANGED <<src, bidx, sampling, band, as_mask, with_nodata, ftransform,
                   fshape, events, fraised>>

\* lines 651-667: the tracer has one more polygon, a feature is yielded
Yield ==
    /\ fpc = "tracing"
    /\ Count(events, "yield") < MaxFeatures
    /\ events' = events \o feature_events(Count(events, "yield"))
    /\ fpc' = "suspended"
    /\ UNCHANGED <<src, bidx, sampling, band, as_mask, with_nodata, ftransform,
                   fshape, msk, img, traced, fraised>>

\* the tracer has no more polygons: the generator returns
Exhaust ==
    /\ fpc = "tracing"
    /\ fpc' = "exhausted"
    /\ UNCHANGED <<src, bidx, sampling, band, as_mask, with_nodata, ftransform,
                   fshape, msk, img, traced, events, fraised>>

\* the consumer pulls the next feature
Pull ==
    /\ fpc = "suspended"
    /\ fpc' = "tracing"
    /\ UNCHANGED <<src, bidx, sampling, band, as_mask, with_nodata, ftransform,
                   fshape, msk, img, traced, events, fraised>>

\* the consumer stops pulling: the generator is dropped where it stands
Close ==
    /\ fpc \in {"created", "suspended"}
    /\ fpc' = "closed"
    /\ UNCHANGED <<src, bidx, sampling, band, as_mask, with_nodata, ftransform,
                   fshape, msk, img, traced, events, fraised>>

(***************************************************************************)
(* Validator runs: a well-formed geometry, structurally mutated, is handed *)
(* to is_valid_geom                                                        *)
(***************************************************************************)
Coordinate == List(<<Num, Num>>)

Line == List(<<Coordinate, Coordinate>>)

Ring == List(<<Coordinate, Coordinate, Coordinate, Coordinate>>)

WellFormedLeaves ==
    { Geometry("Point", Coordinate),
      Geometry("MultiPoint", List(<<Coordinate, Coordinate>>)),
      Geometry("LineString", Line),
      Geometry("LinearRing", Ring),
      Geometry("MultiLineString", List(<<Line, Line>>)),
      Geometry("Polygon", List(<<Ring, Ring>>)),
      Geometry("MultiPolygon", List(<<List(<<Ring, Ring>>), List(<<Ring>>)>>)) }

WellFormedGeoms ==
    WellFormedLeaves \cup
    { GeometryCollection(<<Geometry("LineString", Line),
                           Geometry("Point", Coordinate)>>),
      GeometryCollection(<<GeometryCollection(<<Geometry("Point", Coordinate),
                                               Geometry("Point", Coordinate)>>),
                           Geometry("Point", Coordinate)>>) }

Without(s, i) == SubSeq(s, 1, i - 1) \o SubSeq(s, i + 1, Len(s))

RECURSIVE NodeMutants(_)
\* every tree one structural mutation away from n: an element removed at any
\* depth, or a sequence at any depth replaced by a number
NodeMutants(n) ==
    IF n.num THEN {}
    ELSE LET k == Len(n.items)
         IN  { List(Without(n.items, i)) : i \in 1..k }
             \cup { List([n.items EXCEPT ![i] = Num]) :
                        i \in { j \in 1..k : ~n.items[j].num } }
             \cup UNION { { List([n.items EXCEPT ![i] = m]) :
                                m \in NodeMutants(n.items[i]) } : i \in 1..k }

RECURSIVE GeomMutants(_)
\* every mapping one structural mutation away from g: a key removed, the type
\* made unrecognized, the coordinates mutated, a member removed or mutated
GeomMutants(g) ==
    LET k == Len(g.geometries)
    IN  (IF "type" \in g.keys
            THEN { [g EXCEPT !.keys = @ \ {"type"}, !.type = ""],
                   [g EXCEPT !.type = "Invalid"] } \ {g}
            ELSE {})
        \cup (IF "coordinates" \in g.keys
                 THEN ({ [g EXCEPT !.keys = @ \ {"coordinates"}, !.coordinates = Num],
                         [g EXCEPT !.coordinates = Num] } \ {g})
                      \cup { [g EXCEPT !.coordinates = m] :
                                 m \in NodeMutants(g.coordinates) }
                 ELSE {})
        \cup (IF "geometries" \in g.keys
                 THEN { [g EXCEPT !.keys = @ \ {"geometries"}, !.geometries = << >>] }
                      \cup { [g EXCEPT !.geometries = Without(@, i)] : i \in 1..k }
                      \cup UNION { { [g EXCEPT !.geometries[i] = m] :
                                         m \in GeomMutants(g.geometries[i]) } :
                                   i \in 1..k }
                 ELSE {})

GeomInit ==
    /\ geom \in WellFormedGeoms
    /\ nmut = 0
    /\ res = "none"
    /\ RastIdle
    /\ WindowIdle
    /\ FeaturesIdle

Mutate ==
    /\ res = "none"
    /\ nmut < MaxMutations
    /\ \E m \in GeomMutants(geom) : geom' = m
    /\ nmut' = nmut + 1
    /\ UNCHANGED <<res, rast_vars, win_vars, feat_vars>>

Validate ==
    /\ res = "none"
    /\ res' = is_valid_geom(geom)
    /\ UNCHANGED <<geom, nmut, rast_vars, win_vars, feat_vars>>

GeomNext == Mutate \/ Validate

SpecGeom == GeomInit /\ [][GeomNext]_vars

(***************************************************************************)
(* Calls of rasterize                                                      *)
(***************************************************************************)
EmptyPoint == Geometry("Point", List(<< >>))

BrokenLine == Geometry("LineString", List(<<Num, Num>>))

\* a collection one of whose members is a collection itself
Collection ==
    GeometryCollection(<<GeometryCollection(<<Geometry("Point", Coordinate)>>),
                         Geometry("LineString", Line)>>)

ShapeGeoms == {Geometry("Point", Coordinate), EmptyPoint, BrokenLine, Collection}

Pair(g, value) == [pair |-> TRUE, geom |-> g, value |-> value]

Bare(g) == [pair |-> FALSE, geom |-> g, value |-> None]

Items ==
    { Bare(g) : g \in ShapeGeoms }
    \cup { Pair(g, v) : g \in ShapeGeoms, v \in {None, PyInt(300), PyComplex} }

Fills == {PyInt(0), PyInt(-1), PyFloat(0), PyComplex}

DefaultValues == {PyInt(1), PyInt(70000), PyComplex}

Dtypes == {"None", "uint8", "int8"}

Buffer(dt, shape) == Filled(shape, dt, PyInt(9))

OutBuffers ==
    { Buffer("uint8", <<1, 2>>), Buffer("int8", <<1, 2>>),
      Buffer("uint16", <<0, 2>>), Buffer("uint16", <<1, 1, 2>>) }

OutShapes == { Shape(<<1, 2>>), Shape(<<0, 2>>), Shape(<<2>>) }

\* the (out, out_shape) arguments of a call: neither, one of them, or both
Outputs ==
    {<<NoBuffer, NoShape>>}
    \cup { <<NoBuffer, os>> : os \in OutShapes }
    \cup { <<o, NoShape>> : o \in OutBuffers }
    \cup { <<o, Shape(<<1, 2>>)>> : o \in OutBuffers }

Init ==
    /\ geom = Geometry("Point", Coordinate)
    /\ nmut = 0
    /\ res = "none"
    /\ RastIdle
    /\ WindowIdle
    /\ FeaturesIdle

Next ==
    \/ \E f \in Fills, d \in DefaultValues, dt \in Dtypes, o \in Outputs :
            Call(f, d, dt, o[1], o[2]) /\ UNCHANGED <<geom_vars, win_vars, feat_vars>>
    \/ \E item \in Items : NextShape(item) /\ UNCHANGED <<geom_vars, win_vars, feat_vars>>
    \/ EndOfShapes /\ UNCHANGED <<geom_vars, win_vars, feat_vars>>
    \/ Burn /\ UNCHANGED <<geom_vars, win_vars, feat_vars>>

Spec == Init /\ [][Next]_vars

(***************************************************************************)
(* Calls of geometry_window                                                *)
(***************************************************************************)
\* shapes one call of geometry_window is given
MaxWindowShapes == 2

\* every dataset is 3 pixels wide and 2 pixels high
Datasets ==
    { Dataset(kind, r, 3, 2) : kind \in {"north_up", "south_up", "rotated"},
                               r \in {1, 2} }

\* the pixels a shape spans: the whole raster, a part of it off the pixel
\* grid, and four that miss the raster on one side each
WholeRaster == <<0, 0, 3 * Q, 2 * Q>>

Boxes ==
    {WholeRaster, <<3, 2, 7, 5>>, <<14, 2, 18, 5>>, <<-10, 2, -6, 5>>,
     <<3, 10, 7, 13>>, <<3, -6, 7, -3>>}

WindowShapes ==
    { WindowShape(b, FALSE) : b \in Boxes }
    \cup { WindowShape(b, TRUE) : b \in {WholeRaster, <<3, 2, 7, 5>>} }

\* pad_x, pad_y: none, one pixel size each, a negative one, half of one
Paddings == {<<0, 0>>, <<Q, Q>>, <<-Q, 0>>, <<0, Q \div 2>>}

Precisions == {0, 3}

ShapeLists == UNION { [1..n -> WindowShapes] : n \in 0..MaxWindowShapes }

WindowNext ==
    \/ \E ds \in Datasets, s \in ShapeLists, p \in Paddings, places \in Precisions :
            WindowCall(ds, s, p[1], p[2], places) /\ UNCHANGED <<geom_vars, rast_vars, feat_vars>>
    \/ Pad /\ UNCHANGED <<geom_vars, rast_vars, feat_vars>>
    \/ Envelope /\ UNCHANGED <<geom_vars, rast_vars, feat_vars>>
    \/ Outermost /\ UNCHANGED <<geom_vars, rast_vars, feat_vars>>
    \/ Intersect /\ UNCHANGED <<geom_vars, rast_vars, feat_vars>>

SpecWindow == Init /\ [][WindowNext]_vars

(***************************************************************************)
(* Runs of dataset_features                                                *)
(***************************************************************************)
\* a north-up transform with pixels of size 2 and a rotated one
Transforms ==
    {Affine(Whole(2), Whole(0), Whole(10), Whole(0), Whole(-2), Whole(20)),
     Affine(Whole(0), Whole(1), Whole(0), Whole(1), Whole(0), Whole(0))}

\* datasets of one band, 5 x 4 and 8 x 7 pixels
Sources ==
    { Source(size[1], size[2], 1, t) : size \in {<<5, 4>>, <<8, 7>>}, t \in Transforms }

Bidxs == {NoBidx, 1, 2}

Samplings == {1, 2, 3}

FeaturesNext ==
    \/ \E s \in Sources, b \in Bidxs, k \in Samplings, bd \in BOOLEAN,
          am \in BOOLEAN, wn \in BOOLEAN :
            FeaturesCall(s, b, k, bd, am, wn) /\ UNCHANGED <<geom_vars, rast_vars, win_vars>>
    \/ Start /\ UNCHANGED <<geom_vars, rast_vars, win_vars>>
    \/ AdjustTransform /\ UNCHANGED <<geom_vars, rast_vars, win_vars>>
    \/ ReadMasks /\ UNCHANGED <<geom_vars, rast_vars, win_vars>>
    \/ ReadBand /\ UNCHANGED <<geom_vars, rast_vars, win_vars>>
    \/ Trace /\ UNCHANGED <<geom_vars, rast_vars, win_vars>>
    \/ Yield /\ UNCHANGED <<geom_vars, rast_vars, win_vars>>
    \/ Exhaust /\ UNCHANGED <<geom_vars, rast_vars, win_vars>>
    \/ Pull /\ UNCHANGED <<geom_vars, rast_vars, win_vars>>
    \/ Close /\ UNCHANGED <<geom_vars, rast_vars, win_vars>>

SpecFeatures == Init /\ [][FeaturesNext]_vars




(***************************************************************************)
(* Claims about is_valid_geom, checked under SpecGeom                      *)
(***************************************************************************)
\* the minimum cardinality of a geometry type, level by level from the
\* outermost sequence in: a Polygon is >= 1 ring of >= 4 coordinates of >= 2
\* ordinates
MinCardinality(type) ==
    CASE type = "Point"           -> <<2>>
      [] type = "MultiPoint"      -> <<1, 2>>
      [] type = "LineString"      -> <<2, 2>>
      [] type = "LinearRing"      -> <<4, 2>>
      [] type = "MultiLineString" -> <<1, 2, 2>>
      [] type = "Polygon"         -> <<1, 4, 2>>
      [] type = "MultiPolygon"    -> <<1, 1, 4, 2>>

RECURSIVE NestedSequences(_, _)
\* n is sequences nested `depth` deep with numbers at the bottom
NestedSequences(n, depth) ==
    /\ ~n.num
    /\ \A i \in 1..Len(n.items) :
          IF depth = 1 THEN n.items[i].num
          ELSE NestedSequences(n.items[i], depth - 1)

RECURSIVE MeetsEverywhere(_, _)
\* every sequence of n, at every level, has the cardinality its level needs
MeetsEverywhere(n, card) ==
    /\ Len(n.items) >= Head(card)
    /\ Len(card) > 1 =>
          \A i \in 1..Len(n.items) : MeetsEverywhere(n.items[i], Tail(card))

RECURSIVE MeetsOnFirstPath(_, _)
\* the sequences on the path n, n[0], n[0][0], ... have the cardinality
\* their level needs
MeetsOnFirstPath(n, card) ==
    /\ ~n.num
    /\ Len(n.items) >= Head(card)
    /\ Len(card) > 1 => MeetsOnFirstPath(n.items[1], Tail(card))

\* is_valid_geom has run on a geometry of one of the seven coordinate types
\* whose coordinates are sequences nested as the type nests them
ValidatedLeaf ==
    /\ res # "none"
    /\ geom.keys = {"type", "coordinates"}
    /\ geom.type \in geom_types
    /\ NestedSequences(geom.coordinates, Len(MinCardinality(geom.type)))

\* C1 as claimed: is_valid_geom is true of a geometry that meets its type's
\* minimum cardinality and false of one mutated to violate it, whichever
\* coordinate, ring or member the mutation was applied to.
C1_WhicheverElement ==
    ValidatedLeaf =>
        res = IF MeetsEverywhere(geom.coordinates, MinCardinality(geom.type))
              THEN "True" ELSE "False"

\* C1 as amended: is_valid_geom is true of a geometry that meets its type's
\* minimum cardinality; it is false of a mutated geometry exactly when the
\* violation is in the outermost sequence or on the path of first elements
\* (first member, its first ring, that ring's first coordinate); a violation
\* anywhere else leaves it true.
C1_FirstPathOnly ==
    ValidatedLeaf =>
        /\ MeetsEverywhere(geom.coordinates, MinCardinality(geom.type))
              => res = "True"
        /\ res = IF MeetsOnFirstPath(geom.coordinates, MinCardinality(geom.type))
                 THEN "True" ELSE "False"

\* a MultiPolygon mutated on its first path and found invalid
C1_Witness ==
    /\ ValidatedLeaf
    /\ geom.type = "MultiPolygon"
    /\ nmut > 0
    /\ Len(geom.coordinates.items) > 0
    /\ Len(geom.coordinates.items[1].items) > 0
    /\ Len(geom.coordinates.items[1].items[1].items) = 3
    /\ res = "False"

\* C2: is_valid_geom never raises: a geometry with no 'type', an
\* unrecognized 'type', no 'coordinates' or 'geometries', or coordinates
\* below the minimum cardinality (elements that are not sequences included)
\* gets False as a value.
C2_NeverRaises == res # "TypeError"

\* is_valid_geom has run on a GeometryCollection that has 'geometries'
ValidatedCollection ==
    /\ res # "none"
    /\ "type" \in geom.keys
    /\ geom.type = "GeometryCollection"
    /\ "geometries" \in geom.keys

\* C3: of a GeometryCollection with a 'geometries' sequence is_valid_geom is
\* false if and only if the sequence is empty or some member is invalid
\* under is_valid_geom, members that are GeometryCollections included.
C3_FalseIffEmptyOrInvalidMember ==
    ValidatedCollection =>
        (res = "False" <=>
            \/ Len(geom.geometries) = 0
            \/ \E i \in 1..Len(geom.geometries) :
                  is_valid_geom(geom.geometries[i]) = "False")


RECURSIVE Raises(_)
\* validating g or one of its members, at any depth, raises
Raises(g) ==
    \/ is_valid_geom(g) = "TypeError"
    \/ \E i \in 1..Len(g.geometries) : Raises(g.geometries[i])

\* C3, of the collections no member of which raises: the equivalence holds,
\* so that C3 fails on the code only where C2 does.
C3_WhenNoMemberRaises ==
    (ValidatedCollection /\ \A i \in 1..Len(geom.geometries) : ~Raises(geom.geometries[i]))
        => (res = "False" <=>
               \/ Len(geom.geometries) = 0
               \/ \E i \in 1..Len(geom.geometries) :
                     is_valid_geom(geom.geometries[i]) = "False")

(***************************************************************************)
(* Claims about rasterize, checked under Spec                              *)
(*                                                                         *)
(* `shapes` is the input sequence as far as the loop has taken it; when    *)
(* the call has ended it is the whole input the call has seen.             *)
(***************************************************************************)
Ended == pc \in {"done", "raised"}

Burnt == burns # << >>

\* the list and the buffer handed to the burn primitive
Handed == burns[1][1]

HandedBuffer == burns[1][2]

IsValid(item) == is_valid_geom(item.geom) = "True"

SomeValid == \E i \in 1..Len(shapes) : IsValid(shapes[i])

\* the docstring's rule (lines 184-188): no value, default_value; None, fill
Normalized(item) ==
    CASE ~item.pair                      -> default_value
      [] item.pair /\ item.value = None  -> fill
      [] OTHER                           -> item.value

RECURSIVE OriginsFrom(_)
\* where each entry of the list to burn comes from: <<i, 0>> is the shape at
\* position i itself, <<i, m>> the m-th member of the collection at position i;
\* the valid items in input order, a collection's members in member order
OriginsFrom(i) ==
    IF i > Len(shapes) THEN << >>
    ELSE (IF ~IsValid(shapes[i]) THEN << >>
          ELSE IF shapes[i].geom.type = "GeometryCollection"
              THEN [m \in 1..Len(shapes[i].geom.geometries) |-> <<i, m>>]
          ELSE << <<i, 0>> >>)
         \o OriginsFrom(i + 1)

Origins == OriginsFrom(1)

\* the values of the valid shapes
RECURSIVE ValidValuesFrom(_)
ValidValuesFrom(i) ==
    IF i > Len(shapes) THEN << >>
    ELSE (IF IsValid(shapes[i]) THEN <<Normalized(shapes[i])>> ELSE << >>)
         \o ValidValuesFrom(i + 1)

ValidValues == ValidValuesFrom(1)

\* the 0-based positions of the items that are not valid
RECURSIVE NotValidIndexesFrom(_)
NotValidIndexesFrom(i) ==
    IF i > Len(shapes) THEN << >>
    ELSE (IF IsValid(shapes[i]) THEN << >> ELSE <<i - 1>>)
         \o NotValidIndexesFrom(i + 1)

\* C4: called with shapes none of which is valid, and admissible fill,
\* default_value and dtype, rasterize raises the no-valid-geometry
\* ValueError, never calls the burn primitive and returns no buffer.
C4_NoValidShapeIsValueError ==
    (/\ Ended
     /\ check_arguments(fill, default_value, dtype_arg) = ""
     /\ ~SomeValid)
    => (raised = "NoValidGeometry" /\ ~Burnt /\ ret = NoBuffer)

\* C5: an item is normalized to (geometry, value): a bare geometry gets
\* default_value, a pair whose value is None gets fill, any other value is
\* kept; the value burned for each valid shape is this value.
C5_BurnsNormalizedValue ==
    Burnt =>
        /\ Len(Handed) = Len(Origins)
        /\ \A k \in 1..Len(Handed) :
              Handed[k][2] = Normalized(shapes[Origins[k][1]])

\* a burn of a bare geometry and of a pair whose value is None
C5_Witness ==
    /\ Burnt
    /\ \E i, j \in 1..Len(shapes) :
          /\ IsValid(shapes[i]) /\ ~shapes[i].pair
          /\ IsValid(shapes[j]) /\ shapes[j].pair /\ shapes[j].value = None
    /\ fill # default_value

\* C6: a valid GeometryCollection is replaced, in the list handed to the
\* burn primitive, by its first-level members in member order, each with the
\* collection's value; the collection itself is never in the list, and a
\* valid shape that is no collection is in it exactly once, with its value.
C6_CollectionsFlattened ==
    Burnt =>
        /\ Len(Handed) = Len(Origins)
        /\ \A k \in 1..Len(Handed) :
              LET item == shapes[Origins[k][1]]
                  m == Origins[k][2]
              IN  /\ Handed[k][1] = IF m = 0 THEN item.geom
                                    ELSE item.geom.geometries[m]
                  /\ \A l \in 1..Len(Handed) :
                        Origins[l][1] = Origins[k][1] => Handed[l][2] = Handed[k][2]
        /\ \A i \in 1..Len(shapes) :
              (IsValid(shapes[i]) /\ shapes[i].geom.type = "GeometryCollection")
                  => \A k \in 1..Len(Handed) : Handed[k][1] # shapes[i].geom

\* a burn of a collection next to a shape that is no collection
C6_Witness ==
    /\ Burnt
    /\ \E i, j \in 1..Len(shapes) :
          /\ IsValid(shapes[i]) /\ shapes[i].geom.type = "GeometryCollection"
          /\ IsValid(shapes[j]) /\ shapes[j].geom.type = "Point"
    /\ Len(Handed) = 3

\* C7: an invalid or empty shape is recovered locally: when some shape of
\* the input is valid, each invalid item gets exactly one warning, naming
\* its index in the input, and the call does not fail because of it.
C7_InvalidShapeRecoveredLocally ==
    (Ended /\ SomeValid) =>
        /\ warned = NotValidIndexesFrom(1)
        /\ raised \notin {"TypeError", "NoValidGeometry"}

\* for every admissible dtype that comes before dt in the widening order,
\* some value does not fit it
NoneSmaller(dt, values) ==
    \A i \in 1..Len(WideningOrder) :
        (\E j \in 1..Len(WideningOrder) : j > i /\ WideningOrder[j] = dt)
            => ~can_cast_dtype(values, WideningOrder[i])

\* C8: with no dtype and no out given, the raster's dtype is the smallest of
\* the admissible dtypes that holds the value of every valid shape and the
\* fill value, and every pixel of the new raster holds fill before the burn;
\* the values of the skipped shapes play no part.
C8_SmallestDtypeFilledWithFill ==
    (Burnt /\ dtype_arg = "None" /\ out_arg = NoBuffer) =>
        /\ HandedBuffer.dtype \in valid_dtypes
        /\ can_cast_dtype(Append(ValidValues, fill), HandedBuffer.dtype)
        /\ NoneSmaller(HandedBuffer.dtype, Append(ValidValues, fill))
        /\ HandedBuffer.shape = out_shape.dims
        /\ Len(HandedBuffer.data) = Product(out_shape.dims)
        /\ \A p \in 1..Len(HandedBuffer.data) : HandedBuffer.data[p] = fill
        /\ pc = "done" => ret.dtype = HandedBuffer.dtype

\* a raster of int16 allocated for a call that skipped a shape worth 300
C8_Witness ==
    /\ pc = "done" /\ dtype_arg = "None" /\ out_arg = NoBuffer
    /\ \E i \in 1..Len(shapes) :
          ~IsValid(shapes[i]) /\ shapes[i].pair /\ shapes[i].value = PyInt(300)
    /\ fill = PyInt(-1)
    /\ ret.dtype = "int16"

\* some valid shape value is not cast without loss into the dtype given, or
\* into the dtype of the out buffer given
SomeValueNotCastable ==
    \/ dtype_arg # "None" /\ ~can_cast_dtype(ValidValues, dtype_arg)
    \/ out_arg # NoBuffer /\ ~can_cast_dtype(ValidValues, out_arg.dtype)

C10_BurnsOnlyTwoDimensional ==
    Burnt => (Len(HandedBuffer.shape) = 2 /\ ~HasZeroAxis(HandedBuffer))

NoShapeRaises == \A i \in 1..Len(shapes) : is_valid_geom(shapes[i].geom) # "TypeError"

\* C4, of the calls in which no validation raises: it holds, so that C4
\* fails on the code only where C2 does.
C4_WhenNoShapeRaises ==
    (/\ Ended
     /\ check_arguments(fill, default_value, dtype_arg) = ""
     /\ ~SomeValid
     /\ NoShapeRaises)
    => (raised = "NoValidGeometry" /\ ~Burnt /\ ret = NoBuffer)

\* C7, of the calls in which no validation raises: it holds, so that C7
\* fails on the code only where C2 does.
C7_WhenNoShapeRaises ==
    (Ended /\ SomeValid /\ NoShapeRaises) =>
        /\ warned = NotValidIndexesFrom(1)
        /\ raised \notin {"TypeError", "NoValidGeometry"}
        /\ Burnt => \A k \in 1..Len(Handed) : IsValid(shapes[Origins[k][1]])

(***************************************************************************)
(* Claims about geometry_window, checked under SpecWindow                  *)
(***************************************************************************)
\* the envelope has been computed
Enveloped == wpc \in {"window", "intersect", "returned"} \/ wraised = "WindowError"

\* the world envelope <<left, bottom, right, top>> contains the box
\* <<west, south, east, north>>; its y side runs from bottom up to top when
\* north_up and from top up to bottom otherwise
EnvelopeContains(e, box, north_up) ==
    /\ e[1] <= box[1] /\ e[3] >= box[3]
    /\ IF north_up THEN e[2] <= box[2] /\ e[4] >= box[4]
                   ELSE e[4] <= box[2] /\ e[2] >= box[4]

\* C11: in the non-rotated branch the world envelope handed to
\* dataset.window contains the bounding box of every geometry, for any
\* geometries and any sign of the padding.
C11_EnvelopeContainsEveryBox ==
    (Enveloped /\ ~Rotated(dataset)) =>
        \A k \in 1..Len(wshapes) :
            EnvelopeContains(env, Bbox(dataset, wshapes[k]), NorthUp(dataset))

\* C11 holds of the calls that are north_up or in which no shape carries a
\* 'bbox': bounds() returns an embedded bbox as it is, south first, also
\* when north_up is false
C11_WhenBoundsAreComputed ==
    (/\ Enveloped /\ ~Rotated(dataset)
     /\ NorthUp(dataset) \/ \A k \in 1..Len(wshapes) : ~wshapes[k].bbox) =>
        \A k \in 1..Len(wshapes) :
            EnvelopeContains(env, Bbox(dataset, wshapes[k]), NorthUp(dataset))

\* lines 428-432 have run
Floored == wpc \in {"intersect", "returned"} \/ wraised = "WindowError"

\* the right and bottom edges of the window of line 432 are not less than
\* those of the window of line 428
EdgesKept ==
    /\ window_out.col_off + window_out.width >= window.col_off + window.width
    /\ window_out.row_off + window_out.height >= window.row_off + window.height

WindowEnded == wpc \in {"returned", "raised"}

\* the pixels the shapes span together, with |pad_x| pixels added on the left
\* and right and |pad_y| pixels on the top and bottom (lines 371-376)
PaddedPixels ==
    LET boxes == [k \in 1..Len(wshapes) |-> wshapes[k].box]
    IN  <<Min(Column(boxes, 1)) - Abs(pad_arg[1]),
          Min(Column(boxes, 2)) - Abs(pad_arg[2]),
          Max(Column(boxes, 3)) + Abs(pad_arg[1]),
          Max(Column(boxes, 4)) + Abs(pad_arg[2])>>

\* the shapes, padding included, lie fully outside the raster extent
FullyOutside ==
    /\ wshapes # << >>
    /\ \/ PaddedPixels[3] <= 0
       \/ PaddedPixels[1] >= dataset.width * Q
       \/ PaddedPixels[4] <= 0
       \/ PaddedPixels[2] >= dataset.height * Q

\* every shape exactly matches the raster extent, and there is no padding
MatchesRaster ==
    /\ wshapes # << >>
    /\ \A k \in 1..Len(wshapes) : wshapes[k].box = WholeRaster
    /\ pad_arg = <<0, 0>>

InsideRaster(w) ==
    /\ w.width > 0 /\ w.height > 0
    /\ w.col_off >= 0 /\ w.row_off >= 0
    /\ w.col_off + w.width <= dataset.width * Q
    /\ w.row_off + w.height <= dataset.height * Q

\* C13: geometry_window raises WindowError and returns no window for
\* geometries fully outside the raster extent; a window it returns has a
\* positive width and height and lies inside the full raster window; for a
\* geometry exactly matching the raster extent, without padding, it returns
\* the full raster window.
C13_WindowOrWindowError ==
    WindowEnded =>
        /\ FullyOutside => (wraised = "WindowError" /\ wret = NoWindow)
        /\ wpc = "returned" => InsideRaster(wret)
        /\ MatchesRaster => (wpc = "returned" /\ wret = raster_window(dataset))

\* the padding is the same number of pixels in both branches
PaddedAsDocumented == ~Rotated(dataset) \/ dataset.res = 1 \/ pad_arg = <<0, 0>>

\* no bounds are taken from a 'bbox' where bounds() should have computed them
BoundsAreComputed ==
    NorthUp(dataset) \/ \A k \in 1..Len(wshapes) : ~wshapes[k].bbox

\* C13 holds of the calls that the faults of bounds() (C11) and of the
\* padding of the rotated branch (C17) do not touch
C13_WhenBoundsAndPaddingAreRight ==
    (WindowEnded /\ PaddedAsDocumented /\ BoundsAreComputed) =>
        /\ FullyOutside => (wraised = "WindowError" /\ wret = NoWindow)
        /\ wpc = "returned" => InsideRaster(wret)
        /\ MatchesRaster => (wpc = "returned" /\ wret = raster_window(dataset))

\* the faults of C11 and C17 are the only ones: each part of C13 taken alone
C13_OutsideWhenPaddingIsRight ==
    (WindowEnded /\ PaddedAsDocumented /\ FullyOutside) =>
        (wraised = "WindowError" /\ wret = NoWindow)

C13_ReturnedWindowInsideRaster ==
    wpc = "returned" => InsideRaster(wret)

C13_MatchWhenBoundsAreComputed ==
    (WindowEnded /\ BoundsAreComputed /\ MatchesRaster) =>
        (wpc = "returned" /\ wret = raster_window(dataset))

\* C16: in the rotated branch the clamped pixel envelope lies within
\* [0, dataset width] x [0, dataset height]: left and right are both in
\* [0, width], top and bottom both in [0, height], for every geometry, those
\* wholly on one side of the raster included.
C16_ClampedIntoRaster ==
    (Enveloped /\ Rotated(dataset)) =>
        /\ 0 <= px_env[1] /\ px_env[1] <= dataset.width * Q
        /\ 0 <= px_env[3] /\ px_env[3] <= dataset.width * Q
        /\ 0 <= px_env[4] /\ px_env[4] <= dataset.height * Q
        /\ 0 <= px_env[2] /\ px_env[2] <= dataset.height * Q

\* what lines 420-423 do ensure: each side is clamped at one end only
C16_ClampedAtOneEnd ==
    (Enveloped /\ Rotated(dataset)) =>
        /\ 0 <= px_env[1]
        /\ px_env[3] <= dataset.width * Q
        /\ 0 <= px_env[4]
        /\ px_env[2] <= dataset.height * Q

\* a pixel envelope <<left, bottom, right, top>> made px pixels larger on the
\* left and right and py pixels larger on the top and bottom
Expanded(e, px, py) == <<e[1] - px, e[2] + py, e[3] + px, e[4] - py>>

\* C17: in the rotated branch the padding is in pixel units: pad_x and pad_y
\* make the pixel envelope |pad_x| pixels larger on the left and right and
\* |pad_y| pixels larger on the top and bottom, whatever the pixel size, as
\* they do in the non-rotated branch.
C17_RotatedPadsInPixels ==
    (Enveloped /\ Rotated(dataset)) =>
        px_env = clamped(dataset,
                         Expanded(pixel_envelope(dataset, wshapes, <<0, 0>>),
                                  Abs(pad_arg[1]), Abs(pad_arg[2])))

\* in the rotated branch the envelope is made |pad_x * res_x| and
\* |pad_y * res_y| pixels larger
C17_RotatedPadsInPixelSizes ==
    (Enveloped /\ Rotated(dataset)) =>
        px_env = clamped(dataset,
                         Expanded(pixel_envelope(dataset, wshapes, <<0, 0>>),
                                  Abs(pad_arg[1]) * dataset.res,
                                  Abs(pad_arg[2]) * dataset.res))

\* in the non-rotated branch the window of line 428 is |pad_x| and |pad_y|
\* pixels larger on each side than the window of the unpadded envelope
C17_AxisAlignedPadsInPixels ==
    (Floored /\ ~Rotated(dataset)) =>
        LET bare == dataset_window(dataset, world_envelope(dataset, wshapes, <<0, 0>>))
        IN  window = Window(bare.col_off - Abs(pad_arg[1]),
                            bare.row_off - Abs(pad_arg[2]),
                            bare.width + 2 * Abs(pad_arg[1]),
                            bare.height + 2 * Abs(pad_arg[2]))

(***************************************************************************)
(* Claims about dataset_features, checked under SpecFeatures               *)
(***************************************************************************)
\* lines 583-599 have run and the raster is decimated
Decimated == fshape # << >>

\* n is the ceiling of m / k
IsCeiling(n, m, k) == n * k >= m /\ (n - 1) * k < m

\* the transform maps the corner pixels (0, 0) and (columns, rows) of the
\* decimated image to where the transform of the dataset maps (0, 0) and
\* (width, height)
CornersKept ==
    /\ Apply(ftransform, <<Whole(0), Whole(0)>>)
           = Apply(src.transform, <<Whole(0), Whole(0)>>)
    /\ Apply(ftransform, <<Whole(fshape[2]), Whole(fshape[1])>>)
           = Apply(src.transform, <<Whole(src.width), Whole(src.height)>>)

\* C14: with a sampling factor k > 1 the target shape is ceil(height / k)
\* rows by ceil(width / k) columns, and the adjusted transform maps the
\* corner pixels of the decimated image to the world coordinates to which
\* the source transform maps the corners of the original image.
C14_DecimatedCornersKept ==
    Decimated =>
        /\ IsCeiling(fshape[1], src.height, sampling)
        /\ IsCeiling(fshape[2], src.width, sampling)
        /\ CornersKept

\* the target shape is as C14 says
C14_DecimatedShape ==
    Decimated =>
        /\ IsCeiling(fshape[1], src.height, sampling)
        /\ IsCeiling(fshape[2], src.width, sampling)

\* the corners are kept unless one of the divisions of lines 590-591 is
\* rounded up
C14_WhenNoQuotientIsRoundedUp ==
    (/\ Decimated
     /\ rounding_of_division(src.width, fshape[2]) # "up"
     /\ rounding_of_division(src.height, fshape[1]) # "up") => CornersKept

\* shapes() has been called
Traced == traced # << >>

MaskRead == Count(events, "read_masks") > 0

TracerMask == traced[1][2]

\* C15: the validity mask is not read only when every pixel is to be traced:
\* for every band, as_mask and with_nodata, if read_masks is not called the
\* tracer is invoked without a mask, and if with_nodata is false the tracer
\* is given a mask that is not null.
C15_NoMaskReadNoMask ==
    Traced =>
        /\ ~MaskRead => TracerMask = NoArray
        /\ ~with_nodata => TracerMask # NoArray

\* C15 as the code has it: read_masks is skipped exactly when a band is
\* traced with as_mask or with_nodata; the tracer is given a mask exactly
\* when with_nodata is false; that mask is the validity mask without
\* as_mask, and with as_mask it is the binary image, which for a band is made
\* from the band data with no validity mask read.
C15_MaskUnlessNodataWanted ==
    Traced =>
        /\ ~MaskRead <=> (band /\ (as_mask \/ with_nodata))
        /\ TracerMask # NoArray <=> ~with_nodata
        /\ (~with_nodata /\ ~as_mask) => TracerMask = Array("read_masks")
        /\ (~with_nodata /\ as_mask) => TracerMask = traced[1][1]
        /\ (~MaskRead /\ TracerMask # NoArray) =>
               (as_mask /\ TracerMask = Binary(Array("read")))

\* the tracer was given a mask though no validity mask was read
C15_Witness == Traced /\ ~MaskRead /\ TracerMask # NoArray

\* C18: in every run all reads of the dataset, read_masks and read, happen
\* before the first feature is yielded, each at most once, and none between
\* two yields or after the last, however many features the consumer pulls
\* and whenever it stops.
C18_ReadsOnceBeforeFirstYield ==
    /\ Count(events, "read_masks") <= 1
    /\ Count(events, "read") <= 1
    /\ \A i, j \in 1..Len(events) :
           (i < j /\ events[i] = "yield") => events[j] = "yield"

\* the consumer stopped after it had pulled every feature of a run that read
\* both the mask and the band
C18_Witness ==
    /\ fpc = "closed"
    /\ Count(events, "yield") = MaxFeatures
    /\ Count(events, "read_masks") = 1
    /\ Count(events, "read") = 1

(***************************************************************************)
(* The frame of rasterize, checked under Spec                              *)
(***************************************************************************)
\* the validation failures of rasterize
ValidationFailures ==
    {"InvalidDtype: fill", "CastError: fill", "InvalidDtype: default_value",
     "CastError: default_value", "InvalidDtype: dtype", "NoValidGeometry",
     "InvalidDtype: shape values", "CastError: shape values", "InvalidDtype: out",
     "NotTwoDimensional", "NoOutShapeOrOut", "ZeroAxis"}

\* C19: every validation failure of rasterize happens before the burn
\* primitive is invoked, so whenever rasterize raises one of these errors
\* the out buffer the caller supplied holds exactly what it held before the
\* call.
C19_FailureLeavesOutAsPassed ==
    raised \in ValidationFailures =>
        /\ burns = << >>
        /\ ret = NoBuffer
        /\ out_arg # NoBuffer => out = out_arg

\* a call with shapes to burn and an out buffer with pixels failed
C19_Witness ==
    /\ raised \in ValidationFailures
    /\ valid_shapes # << >>
    /\ out_arg # NoBuffer
    /\ out_arg.data # << >>

\* the last of the checks failed on a buffer the caller supplied
C19_WitnessOfLastCheck == raised = "ZeroAxis" /\ out_arg # NoBuffer

=============================================================================
